---- MODULE Spec2Model ----
(***************************************************************************)
(* Model of src/src/analyzer.py (class StockAnalyzer) and of the guard in  *)
(* src/main.py that decides whether an analyzer is built at all.           *)
(*                                                                         *)
(* Numbers.  A pandas cell is a float that may be NaN.  A cell is modelled *)
(* as a record: NaN, or Num(v) with v an integer.  Every comparison the    *)
(* code makes on cells is IEEE-754: it is False as soon as one side is NaN.*)
(*                                                                         *)
(* Bars.  analyzer.py never reads a bar earlier than the latest one: it    *)
(* reads the latest row of its table, and hands the columns to the `ta`    *)
(* indicator classes.  A price series is therefore carried as its length   *)
(* and `bars`, the quantities the indicator classes derive from the bars   *)
(* at the latest position (trailing means, band half-width, oscillators).  *)
(* Which of them are defined is decided by the length, exactly as the      *)
(* indicator classes decide it (warm-up windows).                          *)
(*                                                                         *)
(* Labels.  The source labels are Russian strings; the model uses ASCII    *)
(* tokens, one per source string (see the Label definitions).              *)
(*                                                                         *)
(* Specifications.  Spec: one analyzer on a series given by its latest-bar *)
(* quantities.  SpecPair: two analyzers built from the same series, their  *)
(* calls interleaved.  SpecSeries: one analyzer on a series given bar by   *)
(* bar, whose averages, RSI and %K are computed from the bars.             *)
(***************************************************************************)
EXTENDS Integers, Sequences, FiniteSets, TLC

VARIABLES
    series,     \* the caller's DataFrame, handed to StockAnalyzer(data)
    data,       \* self.data: the analyzer's own table
    signals,    \* self.signals
    ret,        \* outcome of the last call: a returned value or a raised exception
    steps,      \* the components that produced a result during the last call, in order
    other       \* a second analyzer built from the same series, with the outcome of
                \* its last call; None where the program builds one analyzer only

vars == <<series, data, signals, ret, steps, other>>

----------------------------------------------------------------------------
(* Float cells *)

NaN == [nan |-> TRUE]
Num(v) == [nan |-> FALSE, v |-> v]
IsNaN(x) == x.nan

\* Python's x > y and x < y on floats: False when either side is NaN.
GT(x, y) == ~x.nan /\ ~y.nan /\ x.v > y.v
LT(x, y) == ~x.nan /\ ~y.nan /\ x.v < y.v

----------------------------------------------------------------------------
(* Windows of the indicators *)

SMAShort == 20
SMAMid == 50
SMALong == 200
EMAFast == 12
EMASlow == 26
MACDSign == 9
RSIWindow == 14
BBWindow == 20
BBDev == 2
StochWindow == 14
StochSmooth == 3
ATRWindow == 14

\* Thresholds of the classifications
RSIOverbought == 70
RSIOversold == 30
StochOverbought == 80
StochOversold == 20

\* Denominator of the confidence string
VoteCount == 3

----------------------------------------------------------------------------
(* Labels: one token per label string of analyzer.py *)

Uptrend == "Uptrend"                    \* analyzer.py:113, 229
Downtrend == "Downtrend"                \* analyzer.py:115, 231
Sideways == "Sideways"                  \* analyzer.py:117
GoldenCross == "Uptrend (Golden Cross)" \* analyzer.py:120
DeathCross == "Downtrend (Death Cross)" \* analyzer.py:122
LongNeutral == "LongNeutral"            \* analyzer.py:124
Overbought == "Overbought"              \* analyzer.py:150, 164, 236
Oversold == "Oversold"                  \* analyzer.py:152, 166, 234
Neutral == "Neutral"                    \* analyzer.py:154, 168
Bullish == "Bullish"                    \* analyzer.py:158, 239
Bearish == "Bearish"                    \* analyzer.py:160
AboveBand == "Above upper band (overbought)"  \* analyzer.py:199
BelowBand == "Below lower band (oversold)"    \* analyzer.py:201
WithinBands == "Within bands"                 \* analyzer.py:203
BUY == "BUY"                            \* analyzer.py:245
SELL == "SELL"                          \* analyzer.py:247
HOLD == "HOLD"                          \* analyzer.py:249

\* The exception Python raises for an out-of-range position.
IndexError == "IndexError"

----------------------------------------------------------------------------
(* Columns *)

OHLCV == {"Open", "High", "Low", "Close", "Volume"}

\* The columns add_technical_indicators attaches, analyzer.py:36-86.
IndicatorCols ==
    {"SMA_20", "SMA_50", "SMA_200", "EMA_12", "EMA_26", "MACD", "MACD_Signal",
     "MACD_Diff", "RSI", "BB_Upper", "BB_Middle", "BB_Lower", "Stoch_K",
     "Stoch_D", "ATR", "OBV", "Daily_Return", "Price_Change"}

\* The columns whose latest cell analyzer.py itself reads (latest[...]).
ReadCols ==
    {"Close", "SMA_20", "SMA_50", "SMA_200", "MACD", "MACD_Signal", "RSI",
     "BB_Upper", "BB_Middle", "BB_Lower", "Stoch_K", "Stoch_D", "ATR"}

----------------------------------------------------------------------------
(* Inputs: the caller's series *)

\* Prices of the model, MinPrice..MaxPrice.
MinPrice == 10
MaxPrice == 12
Prices == MinPrice..MaxPrice

\* Largest band half-width (BBDev population standard deviations) of the model.
MaxDev == 1

\* Lengths of the model: 0, 1, 2, 10 and the two sides of every warm-up boundary.
Lengths == {0, 1, 2, 10, 13, 14, 15, 16, 19, 20, 25, 26, 33, 34, 49, 50, 199, 200}

\* Oscillator readings of the model: the two sides of each threshold.
RSIReadings == {RSIOversold - 1, RSIOversold, RSIOverbought, RSIOverbought + 1}
StochReadings == {StochOversold - 1, StochOversold, StochOverbought, StochOverbought + 1}

\* MACD line and signal line readings: the line below, on and above the signal.
MACDReadings == {0, 1, 2}
MACDSignalReadings == {1}

\* Readings that are passed through to the results and feed no label: one each.
StochDReadings == {StochOversold}
ATRReadings == {1}
VolatilityReadings == {0}

\* A quantity that needs w bars ranges over S once the series has w bars; before
\* that it is not defined and carries 0, which nothing reads.
Dom(L, w, S) == IF L >= w THEN S ELSE {0}

\* Position (1-based length) from which the MACD signal line is defined: the
\* slow EMA needs EMASlow bars, its MACDSign-period EMA needs MACDSign values.
MACDSignalWarmup == EMASlow + MACDSign - 1

\* Position from which %D is defined: StochSmooth values of %K.
StochDWarmup == StochWindow + StochSmooth - 1

\* Bars needed for the sample deviation of the daily returns: two returns.
ReturnsWarmup == 3

\* Flat price levels: every defined trailing mean equals the latest close.
FlatLevels(L, b) ==
    /\ L >= SMAShort => b.mean20 = b.close /\ b.dev = 0
    /\ L >= SMAMid => b.mean50 = b.close
    /\ L >= SMALong => b.mean200 = b.close

\* The stochastic oscillator reads its reference value.
ReferenceStoch(L, b) == L >= StochWindow => ~b.kflat /\ b.k = StochOversold

\* The latest-bar quantities of a series of length L.
\*   close                 the latest close
\*   mean20/mean50/mean200 mean of the trailing 20/50/200 closes
\*   dev                   BBDev times the population standard deviation of the
\*                         trailing 20 closes
\*   rsi, macd, sig, k     RSI(14), MACD line, MACD signal line, stochastic %K
\*   kflat                 the trailing 14-bar high-low range is zero (%K is 0/0)
\*   d, atr                stochastic %D, average true range
\*   hv                    annualised sample deviation of the daily returns, in
\*                         percent
\* The model draws two families of series: every combination of price levels,
\* RSI and MACD readings with the stochastic oscillator at its reference value,
\* and every combination of RSI, MACD and stochastic readings on flat levels.
BarsOfLen(L) ==
    { b \in [close : Dom(L, 1, Prices),
             mean20 : Dom(L, SMAShort, Prices),
             mean50 : Dom(L, SMAMid, Prices),
             mean200 : Dom(L, SMALong, Prices),
             dev : Dom(L, BBWindow, 0..MaxDev),
             rsi : Dom(L, RSIWindow, RSIReadings),
             macd : Dom(L, EMASlow, MACDReadings),
             sig : Dom(L, MACDSignalWarmup, MACDSignalReadings),
             k : Dom(L, StochWindow, StochReadings),
             kflat : IF L >= StochWindow THEN BOOLEAN ELSE {FALSE},
             d : Dom(L, StochDWarmup, StochDReadings),
             atr : Dom(L, ATRWindow, ATRReadings),
             hv : Dom(L, ReturnsWarmup, VolatilityReadings)] :
        \* one of n values lies within sqrt(n-1) population deviations of their
        \* mean: (close - mean20)^2 <= (BBWindow - 1) * (dev / BBDev)^2
        /\ L >= BBWindow =>
              BBDev * BBDev * (b.close - b.mean20) * (b.close - b.mean20)
                 <= (BBWindow - 1) * b.dev * b.dev
        \* a zero range carries no %K reading
        /\ b.kflat => b.k = StochOversold
        /\ FlatLevels(L, b) \/ ReferenceStoch(L, b) }

\* Objects.  A DataFrame is an object: an assignment df[col] = ... changes the
\* object, for every holder of a reference to it.  A table carries the name of
\* the object it is (obj).  The caller's DataFrame is the object Caller; the
\* model names a table an analyzer allocates after the analyzer (First, Second):
\* an analyzer keeps a reference to one table at a time.
Caller == "caller"
First == "first"
Second == "second"

\* A raw OHLCV table as the data source returns it (data_fetcher.py:29): the
\* five price columns; its latest row holds the latest close.
RawSeries(L, b) ==
    [obj |-> Caller, len |-> L, cols |-> OHLCV, bars |-> b,
     last |-> [c \in {"Close"} |-> Num(b.close)]]

\* Mutant: no copy is made; the result is the object it was asked to copy.
Copy_SameObject(df, owner) == df

\* Mutant: every copy is made into one buffer that all copies share.
Copy_SharedBuffer(df, owner) == [df EXCEPT !.obj = "buffer"]

\* DataFrame.copy(): a new object with the contents of df, allocated by owner.
Copy(df, owner) == [df EXCEPT !.obj = owner]

----------------------------------------------------------------------------
(* The indicator classes of the `ta` package, at the latest position *)

\* SMAIndicator(close, window).sma_indicator(): rolling mean, NaN until the
\* window is full.
SMA(df, window) ==
    IF df.len < window THEN NaN
    ELSE Num(CASE window = SMAShort -> df.bars.mean20
               [] window = SMAMid -> df.bars.mean50
               [] window = SMALong -> df.bars.mean200)

\* MACD(close).macd(): EMA(12) - EMA(26), NaN until the slow window is full.
MACDLine(df) == IF df.len < EMASlow THEN NaN ELSE Num(df.bars.macd)

\* MACD(close).macd_signal(): EMA(9) of the MACD line.
MACDSignalLine(df) == IF df.len < MACDSignalWarmup THEN NaN ELSE Num(df.bars.sig)

\* RSIIndicator(close, 14).rsi()
RSI(df) == IF df.len < RSIWindow THEN NaN ELSE Num(df.bars.rsi)

\* BollingerBands(close, 20, 2): mavg, hband = mavg + 2 std, lband = mavg - 2 std
BBMiddle(df) == IF df.len < BBWindow THEN NaN ELSE Num(df.bars.mean20)
BBUpper(df) == IF df.len < BBWindow THEN NaN ELSE Num(df.bars.mean20 + df.bars.dev)
BBLower(df) == IF df.len < BBWindow THEN NaN ELSE Num(df.bars.mean20 - df.bars.dev)

\* StochasticOscillator(high, low, close, 14, 3).stoch(): 100 (close - min low) /
\* (max high - min low) over the window; a zero range divides 0 by 0, which is NaN.
StochK(df) == IF df.len < StochWindow \/ df.bars.kflat THEN NaN ELSE Num(df.bars.k)

\* .stoch_signal(): rolling mean of 3 values of %K
StochD(df) == IF df.len < StochDWarmup \/ df.bars.kflat THEN NaN ELSE Num(df.bars.d)

\* Mutant: an average true range that is computed for any length.
ATRRaises_Never(df) == FALSE

\* AverageTrueRange(high, low, close, 14): its constructor fills
\* atr[window - 1] of an array of len(close) zeros, which is out of range for a
\* series shorter than the window.
ATRRaises(df) == df.len < ATRWindow
ATR(df) == Num(df.bars.atr)

----------------------------------------------------------------------------
(* Outcomes of a call *)

\* Python's None, as a value that compares with the dicts a call may return.
None == [none |-> TRUE]
Return(v) == [raised |-> FALSE, value |-> v]
Raise(e) == [raised |-> TRUE, exc |-> e]

\* The result of running a method on an analyzer: the analyzer afterwards, the
\* method's outcome, and the components that produced a result, in order.
Ran(self, out, log) == [self |-> self, out |-> out, log |-> log]

\* self.signals = {} (analyzer.py:24)
EmptyDict == [k \in {} |-> None]

----------------------------------------------------------------------------
(* StockAnalyzer *)

\* __init__: self.data = data.copy(); self.signals = {}.  id names the new
\* analyzer object.
NewAnalyzer(id, df) == [id |-> id, data |-> Copy(df, id), signals |-> EmptyDict]

\* The latest row of the table add_technical_indicators builds: Close as it
\* was, and the latest cell of every attached column that is read later.
IndicatorRow(df) ==
    [c \in ReadCols |->
        CASE c = "Close" -> df.last["Close"]
          [] c = "SMA_20" -> SMA(df, SMAShort)
          [] c = "SMA_50" -> SMA(df, SMAMid)
          [] c = "SMA_200" -> SMA(df, SMALong)
          [] c = "MACD" -> MACDLine(df)
          [] c = "MACD_Signal" -> MACDSignalLine(df)
          [] c = "RSI" -> RSI(df)
          [] c = "BB_Upper" -> BBUpper(df)
          [] c = "BB_Middle" -> BBMiddle(df)
          [] c = "BB_Lower" -> BBLower(df)
          [] c = "Stoch_K" -> StochK(df)
          [] c = "Stoch_D" -> StochD(df)
          [] c = "ATR" -> ATR(df)]

\* Mutant: a table that already holds the indicator columns is smoothed again:
\* its latest close is replaced by SMA_20 before the indicators are computed.
add_technical_indicators_Resmooths(self) ==
    IF ATRRaises(self.data)
    THEN Ran(self, Raise(IndexError), <<>>)
    ELSE LET src == IF "SMA_20" \in self.data.cols /\ ~IsNaN(self.data.last["SMA_20"])
                    THEN [self.data EXCEPT !.last["Close"] = self.data.last["SMA_20"]]
                    ELSE self.data
             df == [Copy(src, self.id) EXCEPT !.cols = @ \cup IndicatorCols,
                                              !.last = IndicatorRow(src)]
         IN  Ran([self EXCEPT !.data = df], Return(df), <<"add_technical_indicators">>)

\* add_technical_indicators: df = self.data.copy(); attach the columns;
\* self.data = df; return df.  An exception of an indicator class leaves
\* self.data as it was.
add_technical_indicators(self) ==
    IF ATRRaises(self.data)
    THEN Ran(self, Raise(IndexError), <<>>)
    ELSE LET df == [Copy(self.data, self.id) EXCEPT !.cols = @ \cup IndicatorCols,
                                                    !.last = IndicatorRow(self.data)]
         IN  Ran([self EXCEPT !.data = df], Return(df), <<"add_technical_indicators">>)

\* The(S) is the element of a one-element set.  The({ e : x \in {v} }) is e
\* with x standing for the value of v: the way a result of a call is named
\* and then used several times.
The(S) == CHOOSE x \in S : TRUE

\* Mutant: the indicators are computed on every call, whether the column is
\* in the table or not.
EnsureIndicators_Always(self, col) ==
    The({ IF r.out.raised THEN r ELSE Ran(r.self, Return(None), r.log) :
          r \in {add_technical_indicators(self)} })

\* if '<col>' not in self.data.columns: self.add_technical_indicators()
EnsureIndicators(self, col) ==
    IF col \notin self.data.cols
    THEN The({ IF r.out.raised THEN r ELSE Ran(r.self, Return(None), r.log) :
               r \in {add_technical_indicators(self)} })
    ELSE Ran(self, Return(None), <<>>)

\* self.data.iloc[-k] exists
HasRow(df, k) == df.len >= k

\* Mutant: non-strict comparisons.
ShortTermTrend_NonStrict(latest) ==
    IF ~LT(latest["Close"], latest["SMA_20"]) /\ ~LT(latest["SMA_20"], latest["SMA_50"])
       /\ ~IsNaN(latest["SMA_20"]) /\ ~IsNaN(latest["SMA_50"])
    THEN Uptrend
    ELSE IF ~GT(latest["Close"], latest["SMA_20"]) /\ ~GT(latest["SMA_20"], latest["SMA_50"])
            /\ ~IsNaN(latest["SMA_20"]) /\ ~IsNaN(latest["SMA_50"])
    THEN Downtrend
    ELSE Sideways

\* analyze_trend, analyzer.py:111-117
ShortTermTrend(latest) ==
    IF GT(latest["Close"], latest["SMA_20"]) /\ GT(latest["SMA_20"], latest["SMA_50"])
    THEN Uptrend
    ELSE IF LT(latest["Close"], latest["SMA_20"]) /\ LT(latest["SMA_20"], latest["SMA_50"])
    THEN Downtrend
    ELSE Sideways

\* Mutant: the short average read where the middle one belongs.
LongTermTrend_ReadsShort(latest) ==
    IF GT(latest["SMA_20"], latest["SMA_200"]) THEN GoldenCross
    ELSE IF LT(latest["SMA_20"], latest["SMA_200"]) THEN DeathCross
    ELSE LongNeutral

\* analyze_trend, analyzer.py:119-124
LongTermTrend(latest) ==
    IF GT(latest["SMA_50"], latest["SMA_200"]) THEN GoldenCross
    ELSE IF LT(latest["SMA_50"], latest["SMA_200"]) THEN DeathCross
    ELSE LongNeutral

analyze_trend(self) ==
    The({
    IF pre.out.raised THEN pre
    ELSE IF ~HasRow(pre.self.data, 1) \/ ~HasRow(pre.self.data, 2)
    THEN Ran(pre.self, Raise(IndexError), pre.log)
    ELSE LET latest == pre.self.data.last
             trend_info ==
                 [current_price |-> latest["Close"],
                  sma_20 |-> latest["SMA_20"],
                  sma_50 |-> latest["SMA_50"],
                  sma_200 |-> latest["SMA_200"],
                  short_term_trend |-> ShortTermTrend(latest),
                  long_term_trend |-> LongTermTrend(latest)]
         IN  Ran(pre.self, Return(trend_info), Append(pre.log, "analyze_trend"))
    : pre \in {EnsureIndicators(self, "SMA_20")} })

\* Mutant: the thresholds themselves count as overbought and oversold.
RSISignal_Inclusive(latest) ==
    IF ~IsNaN(latest["RSI"]) /\ ~LT(latest["RSI"], Num(RSIOverbought)) THEN Overbought
    ELSE IF ~IsNaN(latest["RSI"]) /\ ~GT(latest["RSI"], Num(RSIOversold)) THEN Oversold
    ELSE Neutral

\* analyze_momentum, analyzer.py:148-154
RSISignal(latest) ==
    IF GT(latest["RSI"], Num(RSIOverbought)) THEN Overbought
    ELSE IF LT(latest["RSI"], Num(RSIOversold)) THEN Oversold
    ELSE Neutral

\* Mutant: a MACD line on its signal line counts as bullish.
MACDSignal_TieBullish(latest) ==
    IF ~IsNaN(latest["MACD"]) /\ ~IsNaN(latest["MACD_Signal"])
       /\ ~LT(latest["MACD"], latest["MACD_Signal"])
    THEN Bullish ELSE Bearish

\* analyze_momentum, analyzer.py:156-160
MACDSignal(latest) ==
    IF GT(latest["MACD"], latest["MACD_Signal"]) THEN Bullish ELSE Bearish

\* analyze_momentum, analyzer.py:162-168
StochSignal(latest) ==
    IF GT(latest["Stoch_K"], Num(StochOverbought)) THEN Overbought
    ELSE IF LT(latest["Stoch_K"], Num(StochOversold)) THEN Oversold
    ELSE Neutral

\* The key 'macd_signal' is first given the signal line's value (line 143) and
\* then overwritten by the label (lines 158, 160): the dict keeps the label.
analyze_momentum(self) ==
    The({
    IF pre.out.raised THEN pre
    ELSE IF ~HasRow(pre.self.data, 1)
    THEN Ran(pre.self, Raise(IndexError), pre.log)
    ELSE LET latest == pre.self.data.last
             momentum_info ==
                 [rsi |-> latest["RSI"],
                  macd |-> latest["MACD"],
                  macd_signal |-> MACDSignal(latest),
                  stoch_k |-> latest["Stoch_K"],
                  stoch_d |-> latest["Stoch_D"],
                  rsi_signal |-> RSISignal(latest),
                  stoch_signal |-> StochSignal(latest)]
         IN  Ran(pre.self, Return(momentum_info), Append(pre.log, "analyze_momentum"))
    : pre \in {EnsureIndicators(self, "RSI")} })

\* analyze_volatility, analyzer.py:185-186: the sample deviation of the daily
\* returns needs two returns.
HistoricalVolatility(df) == IF df.len < ReturnsWarmup THEN NaN ELSE Num(df.bars.hv)

\* Mutant: a close on a band counts as outside it.
BBPosition_Inclusive(latest) ==
    IF ~IsNaN(latest["BB_Upper"]) /\ ~LT(latest["Close"], latest["BB_Upper"])
       /\ GT(latest["BB_Upper"], latest["BB_Lower"])
    THEN AboveBand
    ELSE IF ~IsNaN(latest["BB_Lower"]) /\ ~GT(latest["Close"], latest["BB_Lower"])
            /\ GT(latest["BB_Upper"], latest["BB_Lower"])
    THEN BelowBand
    ELSE WithinBands

\* analyze_volatility, analyzer.py:197-203
BBPosition(latest) ==
    IF GT(latest["Close"], latest["BB_Upper"]) THEN AboveBand
    ELSE IF LT(latest["Close"], latest["BB_Lower"]) THEN BelowBand
    ELSE WithinBands

analyze_volatility(self) ==
    The({
    IF pre.out.raised THEN pre
    ELSE IF ~HasRow(pre.self.data, 1)
    THEN Ran(pre.self, Raise(IndexError), pre.log)
    ELSE LET latest == pre.self.data.last
             volatility_info ==
                 [current_price |-> latest["Close"],
                  bb_upper |-> latest["BB_Upper"],
                  bb_middle |-> latest["BB_Middle"],
                  bb_lower |-> latest["BB_Lower"],
                  atr |-> latest["ATR"],
                  historical_volatility |-> HistoricalVolatility(pre.self.data),
                  bb_position |-> BBPosition(latest)]
         IN  Ran(pre.self, Return(volatility_info), Append(pre.log, "analyze_volatility"))
    : pre \in {EnsureIndicators(self, "BB_Upper")} })

\* generate_signals, analyzer.py:226-242: the three votes
TrendBuy(trend) == IF trend.short_term_trend = Uptrend THEN 1 ELSE 0
\* Mutant: the sell vote in a plain else branch, as the MACD vote is.
TrendSell_ElseSells(trend) == IF trend.short_term_trend = Uptrend THEN 0 ELSE 1

TrendSell(trend) ==
    IF trend.short_term_trend = Uptrend THEN 0
    ELSE IF trend.short_term_trend = Downtrend THEN 1 ELSE 0
RSIBuy(momentum) == IF momentum.rsi_signal = Oversold THEN 1 ELSE 0
RSISell(momentum) ==
    IF momentum.rsi_signal = Oversold THEN 0
    ELSE IF momentum.rsi_signal = Overbought THEN 1 ELSE 0
MACDBuy(momentum) == IF momentum.macd_signal = Bullish THEN 1 ELSE 0
\* Mutant: a MACD that is not Bullish abstains, as the trend and the RSI do.
MACDSell_Abstains(momentum) == 0

MACDSell(momentum) == IF momentum.macd_signal = Bullish THEN 0 ELSE 1

\* Mutant: an oversold stochastic reading casts a fourth, buy, vote.
buy_signals_WithStoch(trend, momentum) ==
    TrendBuy(trend) + RSIBuy(momentum) + MACDBuy(momentum)
    + (IF momentum.stoch_signal = Oversold THEN 1 ELSE 0)

buy_signals(trend, momentum) == TrendBuy(trend) + RSIBuy(momentum) + MACDBuy(momentum)
sell_signals(trend, momentum) == TrendSell(trend) + RSISell(momentum) + MACDSell(momentum)

\* generate_signals, analyzer.py:244-249
Recommendation(buy, sell) ==
    IF buy > sell THEN BUY
    ELSE IF sell > buy THEN SELL
    ELSE HOLD

Max(a, b) == IF a >= b THEN a ELSE b

\* Mutant: the total of the votes cast instead of the larger side.
Confidence_Total(buy, sell) == ToString(buy + sell) \o "/3"

\* generate_signals, analyzer.py:251: f"{max(buy_signals, sell_signals)}/3"
Confidence(buy, sell) == ToString(Max(buy, sell)) \o "/3"

\* Mutant: the 'momentum' label is taken from the stochastic oscillator.
generate_signals_StochLabel(self) ==
    The({ IF t.out.raised THEN t ELSE
    The({ IF m.out.raised THEN Ran(m.self, m.out, t.log \o m.log) ELSE
    The({ IF v.out.raised THEN Ran(v.self, v.out, t.log \o m.log \o v.log) ELSE
          LET trend == t.out.value
              momentum == m.out.value
              volatility == v.out.value
              buy == buy_signals(trend, momentum)
              sell == sell_signals(trend, momentum)
              sig == [trend |-> trend.short_term_trend,
                      momentum |-> momentum.stoch_signal,
                      macd |-> momentum.macd_signal,
                      volatility |-> volatility.bb_position,
                      recommendation |-> Recommendation(buy, sell),
                      confidence |-> Confidence(buy, sell)]
          IN  Ran([v.self EXCEPT !.signals = sig], Return(sig),
                  t.log \o m.log \o v.log \o <<"generate_signals">>)
    : v \in {analyze_volatility(m.self)} })
    : m \in {analyze_momentum(t.self)} })
    : t \in {analyze_trend(self)} })

generate_signals(self) ==
    The({ IF t.out.raised THEN t ELSE
    The({ IF m.out.raised THEN Ran(m.self, m.out, t.log \o m.log) ELSE
    The({ IF v.out.raised THEN Ran(v.self, v.out, t.log \o m.log \o v.log) ELSE
          LET trend == t.out.value
              momentum == m.out.value
              volatility == v.out.value
              buy == buy_signals(trend, momentum)
              sell == sell_signals(trend, momentum)
              sig == [trend |-> trend.short_term_trend,
                      momentum |-> momentum.rsi_signal,
                      macd |-> momentum.macd_signal,
                      volatility |-> volatility.bb_position,
                      recommendation |-> Recommendation(buy, sell),
                      confidence |-> Confidence(buy, sell)]
          IN  Ran([v.self EXCEPT !.signals = sig], Return(sig),
                  t.log \o m.log \o v.log \o <<"generate_signals">>)
    : v \in {analyze_volatility(m.self)} })
    : m \in {analyze_momentum(t.self)} })
    : t \in {analyze_trend(self)} })

\* get_summary, analyzer.py:263-271.  The dict display evaluates its values in
\* order; 'latest_data' is the latest row of the table.
get_summary(self) ==
    The({ IF a.out.raised THEN a ELSE
    The({ IF t.out.raised THEN Ran(t.self, t.out, a.log \o t.log) ELSE
    The({ IF m.out.raised THEN Ran(m.self, m.out, a.log \o t.log \o m.log) ELSE
    The({ IF v.out.raised
          THEN Ran(v.self, v.out, a.log \o t.log \o m.log \o v.log) ELSE
    The({ IF g.out.raised
          THEN Ran(g.self, g.out, a.log \o t.log \o m.log \o v.log \o g.log)
          ELSE IF ~HasRow(g.self.data, 1)
          THEN Ran(g.self, Raise(IndexError),
                   a.log \o t.log \o m.log \o v.log \o g.log)
          ELSE Ran(g.self,
                   Return([trend |-> t.out.value,
                           momentum |-> m.out.value,
                           volatility |-> v.out.value,
                           signals |-> g.out.value,
                           latest_data |-> g.self.data.last]),
                   a.log \o t.log \o m.log \o v.log \o g.log \o <<"get_summary">>)
    : g \in {generate_signals(v.self)} })
    : v \in {analyze_volatility(m.self)} })
    : m \in {analyze_momentum(t.self)} })
    : t \in {analyze_trend(a.self)} })
    : a \in {add_technical_indicators(self)} })

\* main.py:45-49 and 69-70: analyze_single_stock returns None for missing or
\* empty data without building an analyzer; otherwise it builds one from the
\* data and asks it for the summary.
EmptyData(df) == df.len = 0

----------------------------------------------------------------------------
(* The state machine: one caller's series, one analyzer built from it *)

Self == [id |-> First, data |-> data, signals |-> signals]

\* What a holder of the reference ref sees once the table `written` has been
\* assigned to: the new contents if ref is that object, its own otherwise.
Seen(ref, written) == IF ref.obj = written.obj THEN written ELSE ref

\* The second analyzer once the table `written` has been assigned to.
OtherSees(written) ==
    IF other = None THEN other
    ELSE [other EXCEPT !.self.data = Seen(@, written)]

\* A method call on the analyzer: its effect on the object, its outcome, its log.
Call(op, result) ==
    \E r \in {result} :
    /\ data' = r.self.data
    /\ signals' = r.self.signals
    /\ ret' = [op |-> op, out |-> r.out]
    /\ steps' = r.log
    /\ series' = Seen(series, r.self.data)
    /\ other' = OtherSees(r.self.data)

Init ==
    /\ \E L \in Lengths : \E b \in BarsOfLen(L) : series = RawSeries(L, b)
    /\ data = NewAnalyzer(First, series).data
    /\ signals = NewAnalyzer(First, series).signals
    /\ ret = [op |-> "__init__", out |-> Return(None)]
    /\ steps = <<>>
    /\ other = None

AddTechnicalIndicators == Call("add_technical_indicators", add_technical_indicators(Self))
AnalyzeTrend == Call("analyze_trend", analyze_trend(Self))
AnalyzeMomentum == Call("analyze_momentum", analyze_momentum(Self))
AnalyzeVolatility == Call("analyze_volatility", analyze_volatility(Self))
GenerateSignals == Call("generate_signals", generate_signals(Self))
GetSummary == Call("get_summary", get_summary(Self))

\* analyze_single_stock with visualize off: a fresh analyzer replaces the one at hand.
AnalyzeSingleStock ==
    IF EmptyData(series)
    THEN /\ ret' = [op |-> "analyze_single_stock", out |-> Return(None)]
         /\ steps' = <<>>
         /\ UNCHANGED <<series, data, signals, other>>
    ELSE Call("analyze_single_stock", get_summary(NewAnalyzer(First, series)))

Next ==
    \/ AddTechnicalIndicators
    \/ AnalyzeTrend
    \/ AnalyzeMomentum
    \/ AnalyzeVolatility
    \/ GenerateSignals
    \/ GetSummary
    \/ AnalyzeSingleStock

Spec == Init /\ [][Next]_vars

----------------------------------------------------------------------------
(* Two analyzers built from one caller's series, their calls interleaved *)

\* Lengths of the series two analyzers are built from: one too short for the
\* indicators, one long enough for every analyzer to return.
PairLengths == {10, 20}

\* A method call on the second analyzer.
OtherCall(op, result) ==
    /\ other # None
    /\ \E r \in {result} :
          /\ other' = [self |-> r.self, ret |-> [op |-> op, out |-> r.out]]
          /\ series' = Seen(series, r.self.data)
          /\ data' = Seen(data, r.self.data)
          /\ UNCHANGED <<signals, ret, steps>>

InitPair ==
    /\ \E L \in PairLengths : \E b \in BarsOfLen(L) : series = RawSeries(L, b)
    /\ data = NewAnalyzer(First, series).data
    /\ signals = NewAnalyzer(First, series).signals
    /\ ret = [op |-> "__init__", out |-> Return(None)]
    /\ steps = <<>>
    /\ other = [self |-> NewAnalyzer(Second, series),
                ret |-> [op |-> "__init__", out |-> Return(None)]]

OtherAddTechnicalIndicators ==
    OtherCall("add_technical_indicators", add_technical_indicators(other.self))
OtherAnalyzeTrend == OtherCall("analyze_trend", analyze_trend(other.self))
OtherAnalyzeMomentum == OtherCall("analyze_momentum", analyze_momentum(other.self))
OtherAnalyzeVolatility == OtherCall("analyze_volatility", analyze_volatility(other.self))
OtherGenerateSignals == OtherCall("generate_signals", generate_signals(other.self))
OtherGetSummary == OtherCall("get_summary", get_summary(other.self))

NextPair ==
    \/ Next
    \/ OtherAddTechnicalIndicators
    \/ OtherAnalyzeTrend
    \/ OtherAnalyzeMomentum
    \/ OtherAnalyzeVolatility
    \/ OtherGenerateSignals
    \/ OtherGetSummary

SpecPair == InitPair /\ [][NextPair]_vars

----------------------------------------------------------------------------
(* Series given bar by bar, and what the indicator classes compute from them *)

\* Resolution of a price cell: a cell value v stands for v / Scale units of
\* price, so that the mean of 20, 50 or 200 whole prices is a whole cell value.
Scale == 200

\* A series given bar by bar: len bars; the close starts at `start` and moves
\* by steps[1], steps[2], steps[1], ... from bar to bar; the high lies `up`
\* above and the low `dn` below the close of its bar.
SeriesLengths == {1, 10, 14, 15, 20, 201, 250}
StepPatterns == {<<0, 0>>, <<1, 1>>, <<1, 2>>, <<-1, -1>>, <<-2, -1>>, <<1, -1>>}
Spreads == {<<0, 0>>, <<1, 1>>, <<1, 0>>}

\* The first close: 100, or 600 where the close falls, so that prices stay positive.
FirstClose(p) == IF p[1] + p[2] < 0 THEN 600 ELSE 100

CloseAt(g, i) ==
    g.start + ((i - 1) \div 2) * (g.steps[1] + g.steps[2]) + ((i - 1) % 2) * g.steps[1]
HighAt(g, i) == CloseAt(g, i) + g.up
LowAt(g, i) == CloseAt(g, i) - g.dn

\* Sum of the closes of bars a..b, by halves.
RECURSIVE SumClose(_, _, _)
SumClose(g, a, b) ==
    IF a > b THEN 0
    ELSE IF a = b THEN CloseAt(g, a)
    ELSE SumClose(g, a, (a + b) \div 2) + SumClose(g, (a + b) \div 2 + 1, b)

\* Mutant: the 20-bar window, whatever window is asked for.
TrailingMean_OneWindow(g, i, n) == (Scale * SumClose(g, i - SMAShort + 1, i)) \div SMAShort

\* close.rolling(n).mean() at bar i >= n, as a cell value.
TrailingMean(g, i, n) == (Scale * SumClose(g, i - n + 1, i)) \div n

\* SMAIndicator(close, n).sma_indicator(): the whole column.
SMAColumn(g, n) ==
    [i \in 1..g.len |-> IF i < n THEN NaN ELSE Num(TrailingMean(g, i, n))]

\* The largest r with r * r <= x.
ISqrt(x) == CHOOSE r \in 0..(20 * Scale) : r * r <= x /\ (r + 1) * (r + 1) > x

\* BBDev population standard deviations (ddof = 0) of the trailing BBWindow
\* closes at the latest bar, to the resolution of a cell.
RECURSIVE SumSquares(_, _, _, _)
SumSquares(g, m, a, b) ==
    IF a > b THEN 0
    ELSE (Scale * CloseAt(g, b) - m) * (Scale * CloseAt(g, b) - m) + SumSquares(g, m, a, b - 1)
BandWidth(g) ==
    ISqrt((BBDev * BBDev
           * SumSquares(g, TrailingMean(g, g.len, BBWindow), g.len - BBWindow + 1, g.len))
          \div BBWindow)

\* low.rolling(14).min() and high.rolling(14).max() at bar i
MinLow(g, i) ==
    LET S == {LowAt(g, j) : j \in (i - StochWindow + 1)..i}
    IN  CHOOSE m \in S : \A x \in S : m <= x
MaxHigh(g, i) ==
    LET S == {HighAt(g, j) : j \in (i - StochWindow + 1)..i}
    IN  CHOOSE m \in S : \A x \in S : m >= x

\* StochasticOscillator.stoch() at bar i: 100 (close - smin) / (smax - smin),
\* NaN before the window is full and where the range is zero (0 / 0).
StochKAt(g, i) ==
    IF i < StochWindow THEN NaN
    ELSE IF MaxHigh(g, i) = MinLow(g, i) THEN NaN
    ELSE Num((100 * (CloseAt(g, i) - MinLow(g, i))) \div (MaxHigh(g, i) - MinLow(g, i)))

\* The series whose %K is a whole number at every bar.
ExactStoch(g) ==
    \A i \in StochWindow..g.len :
        MaxHigh(g, i) # MinLow(g, i) =>
            (100 * (CloseAt(g, i) - MinLow(g, i))) % (MaxHigh(g, i) - MinLow(g, i)) = 0

Shapes ==
    { g \in { [len |-> L, start |-> FirstClose(p), steps |-> p, up |-> w[1], dn |-> w[2]] :
                L \in SeriesLengths, p \in StepPatterns, w \in Spreads } :
        ExactStoch(g) }

\* The close rises, or falls, somewhere in the series.
HasRise(g) == \E i \in 2..g.len : CloseAt(g, i) > CloseAt(g, i - 1)
HasFall(g) == \E i \in 2..g.len : CloseAt(g, i) < CloseAt(g, i - 1)

\* Mutant: gains and losses taken for one another.
RSIOf_Swapped(g) ==
    IF ~HasRise(g) THEN {100} ELSE IF ~HasFall(g) THEN {0} ELSE RSIReadings

\* RSIIndicator(close, 14).rsi() at the latest bar.  emaup and emadn are the
\* Wilder averages of the rises and of the falls since the first bar, so each
\* is zero exactly when the series has no such move.  The class computes
\* np.where(emadn == 0, 100, 100 - 100 / (1 + emaup / emadn)): 100 without a
\* fall (a flat series included), 0 with falls only, and a value strictly
\* between, which the model draws from its readings, with both.
RSIOf(g) ==
    IF ~HasFall(g) THEN {100} ELSE IF ~HasRise(g) THEN {0} ELSE RSIReadings

\* The value of a quantity that needs w bars: v, or 0 (unread) before that.
Known(L, w, v) == IF L >= w THEN {v} ELSE {0}

\* The latest-bar quantities of the series g.  The MACD line and its signal
\* line are exponential averages: both are 0 on a flat series, and the model
\* draws them from its readings otherwise.
BarsOf(g) ==
    LET L == g.len
        flat == ~HasRise(g) /\ ~HasFall(g)
        zero == L >= StochWindow /\ MaxHigh(g, L) = MinLow(g, L)
    IN  [close : {Scale * CloseAt(g, L)},
         mean20 : Known(L, SMAShort, TrailingMean(g, L, SMAShort)),
         mean50 : Known(L, SMAMid, TrailingMean(g, L, SMAMid)),
         mean200 : Known(L, SMALong, TrailingMean(g, L, SMALong)),
         dev : Known(L, BBWindow, BandWidth(g)),
         rsi : IF L >= RSIWindow THEN RSIOf(g) ELSE {0},
         macd : IF flat THEN {0} ELSE Dom(L, EMASlow, MACDReadings),
         sig : IF flat THEN {0} ELSE Dom(L, MACDSignalWarmup, MACDSignalReadings),
         k : IF L >= StochWindow /\ ~zero THEN {StochKAt(g, L).v} ELSE {StochOversold},
         kflat : {zero},
         d : Dom(L, StochDWarmup, StochDReadings),
         atr : Dom(L, ATRWindow, ATRReadings),
         hv : Dom(L, ReturnsWarmup, VolatilityReadings)]

\* The raw OHLCV table of the series g.
BarSeries(g, b) ==
    [obj |-> Caller, len |-> g.len, cols |-> OHLCV, bars |-> b,
     last |-> [c \in {"Close"} |-> Num(b.close)], rows |-> g]

InitSeries ==
    /\ \E g \in Shapes : \E b \in BarsOf(g) : series = BarSeries(g, b)
    /\ data = NewAnalyzer(First, series).data
    /\ signals = NewAnalyzer(First, series).signals
    /\ ret = [op |-> "__init__", out |-> Return(None)]
    /\ steps = <<>>
    /\ other = None

SpecSeries == InitSeries /\ [][Next]_vars

----------------------------------------------------------------------------
(* What a state shows of the results *)

Returned(op) == ret.op = op /\ ~ret.out.raised
Raised(op) == ret.op = op /\ ret.out.raised

\* The calls that return a summary.
SummaryOps == {"get_summary", "analyze_single_stock"}
ReturnedSummary == ret.op \in SummaryOps /\ ~ret.out.raised /\ ret.out.value # None

\* Every signals dict in sight: self.signals once set, the value returned by
\* generate_signals, the 'signals' entry of a returned summary.
SignalsSeen ==
    (IF signals = EmptyDict THEN {} ELSE {signals})
    \cup (IF Returned("generate_signals") THEN {ret.out.value} ELSE {})
    \cup (IF ReturnedSummary THEN {ret.out.value.signals} ELSE {})

\* Every trend, momentum and volatility dict in sight.
TrendSeen ==
    (IF Returned("analyze_trend") THEN {ret.out.value} ELSE {})
    \cup (IF ReturnedSummary THEN {ret.out.value.trend} ELSE {})
MomentumSeen ==
    (IF Returned("analyze_momentum") THEN {ret.out.value} ELSE {})
    \cup (IF ReturnedSummary THEN {ret.out.value.momentum} ELSE {})
VolatilitySeen ==
    (IF Returned("analyze_volatility") THEN {ret.out.value} ELSE {})
    \cup (IF ReturnedSummary THEN {ret.out.value.volatility} ELSE {})

\* The latest row of the analyzer's table, once the indicators are attached.
Latest == data.last

----------------------------------------------------------------------------
(* The votes as the claims state them, from the three labels of a signals dict *)

StatedBuyVotes(sig) ==
    (IF sig.trend = Uptrend THEN 1 ELSE 0)
    + (IF sig.momentum = Oversold THEN 1 ELSE 0)
    + (IF sig.macd = Bullish THEN 1 ELSE 0)

StatedSellVotes(sig) ==
    (IF sig.trend = Downtrend THEN 1 ELSE 0)
    + (IF sig.momentum = Overbought THEN 1 ELSE 0)
    + (IF sig.macd # Bullish THEN 1 ELSE 0)

\* C1: in every signals dict generate_signals builds, with the votes counted
\* from its three labels (trend: Uptrend buys, Downtrend sells, Sideways
\* abstains; RSI: Oversold buys, Overbought sells, Neutral abstains; MACD:
\* Bullish buys, anything else sells), the recommendation is BUY exactly when
\* the buy votes exceed the sell votes, SELL exactly when the sell votes exceed
\* the buy votes, HOLD exactly when they are equal.
C1_VotesDecideRecommendation ==
    \A sig \in SignalsSeen :
        LET buy == StatedBuyVotes(sig)
            sell == StatedSellVotes(sig)
        IN  /\ sig.trend \in {Uptrend, Downtrend, Sideways}
            /\ sig.momentum \in {Oversold, Overbought, Neutral}
            /\ sig.macd \in {Bullish, Bearish}
            /\ sig.recommendation = BUY <=> buy > sell
            /\ sig.recommendation = SELL <=> sell > buy
            /\ sig.recommendation = HOLD <=> buy = sell

\* generate_signals returned with one vote of each kind cast against the
\* others: a Downtrend, an Oversold RSI and a Bullish MACD give BUY.
C1_Witness ==
    /\ Returned("generate_signals")
    /\ ret.out.value.trend = Downtrend
    /\ ret.out.value.momentum = Oversold
    /\ ret.out.value.macd = Bullish
    /\ ret.out.value.recommendation = BUY

\* The confidence strings as the claims spell them.
StatedConfidence == <<"0/3", "1/3", "2/3", "3/3">>

\* C2: every signals dict generate_signals builds has a recommendation among
\* BUY, SELL, HOLD and the confidence string k/3 with k the larger of the buy
\* and sell votes, k in 0..3.
C2_RecommendationAndConfidenceRange ==
    \A sig \in SignalsSeen :
        /\ sig.recommendation \in {BUY, SELL, HOLD}
        /\ \E k \in 0..VoteCount :
              /\ k = Max(StatedBuyVotes(sig), StatedSellVotes(sig))
              /\ sig.confidence = StatedConfidence[k + 1]

\* generate_signals returned a unanimous vote.
C2_Witness ==
    /\ Returned("generate_signals")
    /\ StatedSellVotes(ret.out.value) = VoteCount
    /\ ret.out.value.confidence = "3/3"

\* C3: whenever analyze_trend has produced a trend dict, its short-term label
\* is Uptrend exactly when close > SMA_20 and SMA_20 > SMA_50 at the latest
\* bar, Downtrend exactly when close < SMA_20 and SMA_20 < SMA_50, and
\* Sideways in every other case where the three values are defined, ties
\* included.
C3_ShortTermTrendStrict ==
    \A t \in TrendSeen :
        LET c == Latest["Close"]
            s20 == Latest["SMA_20"]
            s50 == Latest["SMA_50"]
            defined == ~IsNaN(c) /\ ~IsNaN(s20) /\ ~IsNaN(s50)
            up == defined /\ c.v > s20.v /\ s20.v > s50.v
            down == defined /\ c.v < s20.v /\ s20.v < s50.v
        IN  /\ t.short_term_trend = Uptrend <=> up
            /\ t.short_term_trend = Downtrend <=> down
            /\ (defined /\ ~up /\ ~down) => t.short_term_trend = Sideways

\* analyze_trend returned Sideways on a tie: close = SMA_20 above SMA_50.
C3_Witness ==
    /\ Returned("analyze_trend")
    /\ ~IsNaN(Latest["SMA_50"])
    /\ Latest["Close"] = Latest["SMA_20"]
    /\ GT(Latest["SMA_20"], Latest["SMA_50"])
    /\ ret.out.value.short_term_trend = Sideways

\* C4: whenever analyze_trend has produced a trend dict and SMA_50 and SMA_200
\* are defined at the latest bar, its long-term label is Golden Cross exactly
\* when SMA_50 > SMA_200, Death Cross exactly when SMA_50 < SMA_200 and the
\* neutral label exactly when they are equal, whatever close and SMA_20 are.
C4_LongTermTrend ==
    \A t \in TrendSeen :
        LET s50 == Latest["SMA_50"]
            s200 == Latest["SMA_200"]
        IN  (~IsNaN(s50) /\ ~IsNaN(s200)) =>
              /\ t.long_term_trend = GoldenCross <=> s50.v > s200.v
              /\ t.long_term_trend = DeathCross <=> s50.v < s200.v
              /\ t.long_term_trend = LongNeutral <=> s50.v = s200.v

\* analyze_trend returned the neutral long-term label with SMA_50 = SMA_200
\* while close and SMA_20 lie above them.
C4_Witness ==
    /\ Returned("analyze_trend")
    /\ ~IsNaN(Latest["SMA_200"])
    /\ Latest["SMA_50"] = Latest["SMA_200"]
    /\ GT(Latest["Close"], Latest["SMA_20"])
    /\ GT(Latest["SMA_20"], Latest["SMA_50"])
    /\ ret.out.value.long_term_trend = LongNeutral

\* The label the specification gives to a classification with an undefined input.
Undetermined == "Undetermined"

\* C5: whenever analyze_trend was called on a non-empty table, it raised
\* nothing; its short-term label is Undetermined when SMA_20 or SMA_50 is
\* undefined at the latest bar, and its long-term label is Undetermined when
\* SMA_50 or SMA_200 is.
C5_UndefinedIsUndetermined ==
    (ret.op = "analyze_trend" /\ data.len >= 1) =>
        /\ ~ret.out.raised
        /\ (IsNaN(SMA(data, SMAShort)) \/ IsNaN(SMA(data, SMAMid)))
              => ret.out.value.short_term_trend = Undetermined
        /\ (IsNaN(SMA(data, SMAMid)) \/ IsNaN(SMA(data, SMALong)))
              => ret.out.value.long_term_trend = Undetermined

\* C6: whenever analyze_momentum has produced a momentum dict, its MACD label
\* is Bullish exactly when the latest MACD is defined and strictly above the
\* latest signal line, and Bearish otherwise; there is no third label.
C6_MACDLabel ==
    \A m \in MomentumSeen :
        LET macd == Latest["MACD"]
            sig == Latest["MACD_Signal"]
            above == ~IsNaN(macd) /\ ~IsNaN(sig) /\ macd.v > sig.v
        IN  /\ m.macd_signal \in {Bullish, Bearish}
            /\ m.macd_signal = Bullish <=> above
            /\ m.macd_signal = Bearish <=> ~above

\* analyze_momentum returned Bearish for a MACD line equal to its signal line.
C6_Witness ==
    /\ Returned("analyze_momentum")
    /\ ~IsNaN(Latest["MACD"])
    /\ Latest["MACD"] = Latest["MACD_Signal"]
    /\ ret.out.value.macd_signal = Bearish

\* C7: whenever analyze_momentum has produced a momentum dict, its RSI label is
\* Overbought exactly when the latest RSI is above 70, Oversold exactly when it
\* is below 30, and Neutral for every defined RSI from 30 to 70 inclusive.
C7_RSILabel ==
    \A m \in MomentumSeen :
        LET rsi == Latest["RSI"]
        IN  /\ m.rsi_signal = Overbought <=> (~IsNaN(rsi) /\ rsi.v > 70)
            /\ m.rsi_signal = Oversold <=> (~IsNaN(rsi) /\ rsi.v < 30)
            /\ (~IsNaN(rsi) /\ rsi.v >= 30 /\ rsi.v <= 70) => m.rsi_signal = Neutral

\* analyze_momentum returned Neutral for an RSI of exactly 70.
C7_Witness ==
    /\ Returned("analyze_momentum")
    /\ Latest["RSI"] = Num(70)
    /\ ret.out.value.rsi_signal = Neutral

\* C8: whenever analyze_momentum has produced a momentum dict, its stochastic
\* label is Overbought exactly when the latest %K is above 80, Oversold exactly
\* when it is below 20, and Neutral for every defined %K from 20 to 80; the
\* label is fixed by %K alone, and in every summary the recommendation and the
\* confidence are those of the trend, RSI and MACD votes, whatever the
\* stochastic label is.
C8_StochLabelCastsNoVote ==
    /\ \A m \in MomentumSeen :
          LET k == Latest["Stoch_K"]
          IN  /\ m.stoch_signal = Overbought <=> (~IsNaN(k) /\ k.v > 80)
              /\ m.stoch_signal = Oversold <=> (~IsNaN(k) /\ k.v < 20)
              /\ (~IsNaN(k) /\ k.v >= 20 /\ k.v <= 80) => m.stoch_signal = Neutral
    /\ ReturnedSummary =>
          LET sig == ret.out.value.signals
              mom == ret.out.value.momentum
              buy == StatedBuyVotes(sig)
              sell == StatedSellVotes(sig)
          IN  /\ sig.momentum = mom.rsi_signal
              /\ sig.macd = mom.macd_signal
              /\ sig.recommendation = (IF buy > sell THEN BUY ELSE IF sell > buy THEN SELL ELSE HOLD)
              /\ sig.confidence = StatedConfidence[Max(buy, sell) + 1]

\* A summary whose stochastic label is Oversold while the only vote cast is the
\* MACD's sell vote: the recommendation is SELL at 1/3.
C8_Witness ==
    /\ ReturnedSummary
    /\ ret.out.value.momentum.stoch_signal = Oversold
    /\ ret.out.value.momentum.rsi_signal = Neutral
    /\ ret.out.value.trend.short_term_trend = Sideways
    /\ ret.out.value.signals.recommendation = SELL
    /\ ret.out.value.signals.confidence = "1/3"

\* C9: whenever analyze_volatility has produced a volatility dict, its
\* Bollinger position is above-band exactly when the latest close is above
\* BB_Upper, below-band exactly when it is below BB_Lower, and within-bands
\* otherwise, a close on a band included; every signals dict reports that
\* position, and its recommendation and confidence are those of the trend, RSI
\* and MACD votes alone.
C9_BollingerPositionCastsNoVote ==
    LET c == Latest["Close"]
        up == Latest["BB_Upper"]
        lo == Latest["BB_Lower"]
        above == ~IsNaN(c) /\ ~IsNaN(up) /\ c.v > up.v
        below == ~IsNaN(c) /\ ~IsNaN(lo) /\ c.v < lo.v
        position == IF above THEN AboveBand ELSE IF below THEN BelowBand ELSE WithinBands
    IN  /\ \A v \in VolatilitySeen :
              /\ v.bb_position = AboveBand <=> above
              /\ v.bb_position = BelowBand <=> below
              /\ v.bb_position = WithinBands <=> (~above /\ ~below)
        /\ \A sig \in SignalsSeen :
              /\ sig.volatility = position
              /\ sig.recommendation =
                    (IF StatedBuyVotes(sig) > StatedSellVotes(sig) THEN BUY
                     ELSE IF StatedSellVotes(sig) > StatedBuyVotes(sig) THEN SELL
                     ELSE HOLD)
              /\ sig.confidence = StatedConfidence[Max(StatedBuyVotes(sig), StatedSellVotes(sig)) + 1]

\* generate_signals reported a close above the upper band (the position tagged
\* overbought) while the only vote cast is the MACD's buy vote: BUY at 1/3.
C9_Witness ==
    /\ Returned("generate_signals")
    /\ GT(Latest["Close"], Latest["BB_Upper"])
    /\ ret.out.value.volatility = AboveBand
    /\ ret.out.value.trend = Sideways
    /\ ret.out.value.momentum = Neutral
    /\ ret.out.value.recommendation = BUY
    /\ ret.out.value.confidence = "1/3"

\* A close exactly on the upper band of a band of positive width is within bands.
C9_WitnessTie ==
    /\ Returned("analyze_volatility")
    /\ Latest["Close"] = Latest["BB_Upper"]
    /\ GT(Latest["BB_Upper"], Latest["BB_Lower"])
    /\ ret.out.value.bb_position = WithinBands

\* The exception the specification names for an empty series.
InsufficientDataError == "InsufficientDataError"

\* The components whose results make up a summary.
Analyzers == {"analyze_trend", "analyze_momentum", "analyze_volatility", "generate_signals"}
NoAnalyzerResult == \A i \in 1..Len(steps) : steps[i] \notin Analyzers

SummaryKeys == {"trend", "momentum", "volatility", "signals", "latest_data"}

\* C11: whenever get_summary was called on an analyzer whose series has at
\* least one bar, it raised nothing and returned a summary with the five
\* entries trend, momentum, volatility, signals and latest bar.
C11_NonEmptyAlwaysSucceeds ==
    (ret.op = "get_summary" /\ data.len >= 1) =>
        /\ ~ret.out.raised
        /\ DOMAIN ret.out.value = SummaryKeys

\* C12: a call that returns a summary (get_summary on the analyzer at hand, or
\* on a new analyzer built from the same series) made right after get_summary
\* returned a summary returns that same summary.
C12_GetSummaryIdempotent ==
    [][(Returned("get_summary") /\ ret'.op \in SummaryOps) => ret'.out = ret.out]_vars

\* get_summary returned, on a table that already held the indicator columns and
\* whose close differs from its averages, the summary a further call returns.
C12_Witness ==
    /\ Returned("get_summary")
    /\ signals = ret.out.value.signals
    /\ ret.out.value.trend.short_term_trend = Uptrend
    /\ ret.out.value.latest_data = data.last
    /\ get_summary(Self).out = ret.out

\* C13: no step changes the caller's series: whatever the analyzer is asked to
\* do, the caller's table keeps its bars and its columns.
C13_CallerSeriesUnchanged == [][series' = series]_vars

\* The analyzer has attached the indicator columns to its own table and stored
\* its signals, and the caller's table is still the raw OHLCV table.
C13_Witness ==
    /\ Returned("get_summary")
    /\ IndicatorCols \subseteq data.cols
    /\ signals # EmptyDict
    /\ series = RawSeries(series.len, series.bars)

\* What the first analyzer holds and last returned.
FirstState == <<data, signals, ret>>

\* The tables an analyzer named id has when it alone works on the series: the
\* copy it was built with, and that copy with the indicator columns.
LoneTables(id) ==
    {NewAnalyzer(id, series).data,
     add_technical_indicators(NewAnalyzer(id, series)).self.data}

\* C14: with two analyzers built from the same series and their calls
\* interleaved in any order, a call on one analyzer leaves the table, the
\* signals and the last result of the other as they were, and each analyzer's
\* table is one it has when it works alone.
C14_AnalyzersShareNoState ==
    [][/\ other' # other => FirstState' = FirstState
       /\ FirstState' # FirstState => other' = other
       /\ data' \in LoneTables(First)'
       /\ other'.self.data \in LoneTables(Second)']_vars

\* The second analyzer has returned a summary and stored its signals while the
\* first, which has only classified the trend, has stored none.
C14_Witness ==
    /\ other # None
    /\ other.ret.op = "get_summary"
    /\ ~other.ret.out.raised
    /\ other.self.signals # EmptyDict
    /\ Returned("analyze_trend")
    /\ signals = EmptyDict

\* The series of the scenarios: 250 bars, close 100 on every bar; and 201 bars
\* whose close starts at 100 and rises by 1 per bar.
FlatScenario(g) == g.len = 250 /\ g.start = 100 /\ g.steps = <<0, 0>>
RisingScenario(g) == g.len = 201 /\ g.start = 100 /\ g.steps = <<1, 1>>

\* C15: every summary of the 250-bar series with close 100 on every bar has
\* short-term trend Sideways, RSI 50 with the label Neutral, Bollinger position
\* within bands, recommendation HOLD and confidence "0/3".
C15_FlatSeriesHolds ==
    (ReturnedSummary /\ FlatScenario(series.rows)) =>
        /\ ret.out.value.trend.short_term_trend = Sideways
        /\ ret.out.value.momentum.rsi = Num(50)
        /\ ret.out.value.momentum.rsi_signal = Neutral
        /\ ret.out.value.volatility.bb_position = WithinBands
        /\ ret.out.value.signals.recommendation = HOLD
        /\ ret.out.value.signals.confidence = "0/3"

\* C16: on the 201-bar series whose close starts at 100 and rises by 1 per bar,
\* the latest bar has SMA_50 > SMA_200 and close > SMA_20 > SMA_50; every trend
\* dict reports Golden Cross and Uptrend; and every signals dict reports the
\* Uptrend and a recommendation and confidence in which the trend's buy vote
\* is counted.
C16_RisingSeriesUptrend ==
    RisingScenario(series.rows) =>
        /\ \A t \in TrendSeen :
              /\ GT(t.sma_50, t.sma_200)
              /\ GT(t.current_price, t.sma_20) /\ GT(t.sma_20, t.sma_50)
              /\ t.long_term_trend = GoldenCross
              /\ t.short_term_trend = Uptrend
        /\ \A sig \in SignalsSeen :
              LET rest == [sig EXCEPT !.trend = Sideways]
                  buy == 1 + StatedBuyVotes(rest)
                  sell == StatedSellVotes(rest)
              IN  /\ sig.trend = Uptrend
                  /\ sig.recommendation =
                        (IF buy > sell THEN BUY ELSE IF sell > buy THEN SELL ELSE HOLD)
                  /\ sig.confidence = StatedConfidence[Max(buy, sell) + 1]

\* A summary of the rising series: SMA_20 = 290.5, SMA_50 = 275.5 and
\* SMA_200 = 200.5 under a close of 300, and the Uptrend's buy vote together
\* with a Bullish MACD outvotes the Overbought RSI.
C16_Witness ==
    /\ ReturnedSummary
    /\ RisingScenario(series.rows)
    /\ ret.out.value.trend.current_price = Num(300 * Scale)
    /\ ret.out.value.trend.sma_20 = Num(58100)
    /\ ret.out.value.trend.sma_50 = Num(55100)
    /\ ret.out.value.trend.sma_200 = Num(40100)
    /\ ret.out.value.trend.long_term_trend = GoldenCross
    /\ ret.out.value.signals.trend = Uptrend
    /\ ret.out.value.signals.macd = Bullish
    /\ ret.out.value.signals.recommendation = BUY
    /\ ret.out.value.signals.confidence = "2/3"

StrictlyIncreasing(g) == \A i \in 2..g.len : CloseAt(g, i) > CloseAt(g, i - 1)
StrictlyDecreasing(g) == \A i \in 2..g.len : CloseAt(g, i) < CloseAt(g, i - 1)

\* C17: in every momentum dict of a series of 15 bars or more, the RSI is 100
\* and its label Overbought when the close is strictly increasing, and the RSI
\* is 0 and its label Oversold when the close is strictly decreasing.
C17_MonotoneRSI ==
    \A m \in MomentumSeen :
        series.rows.len >= 15 =>
            /\ StrictlyIncreasing(series.rows) =>
                  m.rsi = Num(100) /\ m.rsi_signal = Overbought
            /\ StrictlyDecreasing(series.rows) =>
                  m.rsi = Num(0) /\ m.rsi_signal = Oversold

\* analyze_momentum returned RSI 0 and Oversold on a 15-bar series that falls
\* by 2 and by 1 in turn.
C17_Witness ==
    /\ Returned("analyze_momentum")
    /\ series.rows.len = 15
    /\ series.rows.steps = <<-2, -1>>
    /\ StrictlyDecreasing(series.rows)
    /\ ret.out.value.rsi = Num(0)
    /\ ret.out.value.rsi_signal = Oversold

\* C18: once add_technical_indicators has attached the columns of a series
\* whose bars satisfy low <= close <= high, at every bar with a full 14-bar
\* window %K lies in 0..100 where the window's highest high differs from its
\* lowest low, and is the defined value 50 where they are equal; the latest
\* cell of the column is the table's Stoch_K.
C18_StochKRange ==
    Returned("add_technical_indicators") =>
        /\ \A i \in 1..data.len : LowAt(data.rows, i) <= CloseAt(data.rows, i)
                                    /\ CloseAt(data.rows, i) <= HighAt(data.rows, i)
        /\ Latest["Stoch_K"] = StochKAt(data.rows, data.len)
        /\ \A i \in StochWindow..data.len :
              LET k == StochKAt(data.rows, i)
              IN  IF MaxHigh(data.rows, i) # MinLow(data.rows, i)
                  THEN ~IsNaN(k) /\ k.v >= 0 /\ k.v <= 100
                  ELSE k = Num(50)

\* The smaller of two numbers.
Min(a, b) == IF a <= b THEN a ELSE b

\* C19: add_technical_indicators on a series of L >= 1 bars raises nothing;
\* each SMA_n column (n = 20, 50, 200) has L entries, is undefined at exactly
\* its first min(n - 1, L) positions and is the mean of the trailing n closes
\* at every later one; the table's latest SMA_n cell is the column's last.
C19_ColumnsAlignedSMAWarmup ==
    (ret.op = "add_technical_indicators" /\ data.len >= 1) =>
        /\ ~ret.out.raised
        /\ IndicatorCols \subseteq data.cols
        /\ \A n \in {SMAShort, SMAMid, SMALong} :
              LET col == SMAColumn(data.rows, n)
              IN  /\ Len(col) = data.len
                  /\ \A i \in 1..data.len : IsNaN(col[i]) <=> i <= Min(n - 1, data.len)
                  /\ \A i \in n..data.len :
                        n * col[i].v = Scale * SumClose(data.rows, i - n + 1, i)
                  /\ SMA(data, n) = col[data.len]

\* C20: in every summary get_summary returns, the labels of 'signals' are those
\* of the category entries of the same summary: signals.trend is
\* trend.short_term_trend, signals.momentum is momentum.rsi_signal,
\* signals.macd is momentum.macd_signal and signals.volatility is
\* volatility.bb_position.
C20_SignalsAgreeWithSnapshots ==
    ReturnedSummary =>
        /\ ret.out.value.signals.trend = ret.out.value.trend.short_term_trend
        /\ ret.out.value.signals.momentum = ret.out.value.momentum.rsi_signal
        /\ ret.out.value.signals.macd = ret.out.value.momentum.macd_signal
        /\ ret.out.value.signals.volatility = ret.out.value.volatility.bb_position

\* get_summary returned a summary in which the two momentum labels differ (RSI
\* Overbought, stochastic Oversold); generate_signals ran the three analyzers
\* again after they had produced the entries.
C20_Witness ==
    /\ Returned("get_summary")
    /\ steps = <<"add_technical_indicators", "analyze_trend", "analyze_momentum",
                 "analyze_volatility", "analyze_trend", "analyze_momentum",
                 "analyze_volatility", "generate_signals", "get_summary">>
    /\ ret.out.value.momentum.rsi_signal = Overbought
    /\ ret.out.value.momentum.stoch_signal = Oversold
    /\ ret.out.value.signals.momentum = Overbought
    /\ ret.out.value.signals.macd = Bullish
    /\ ret.out.value.signals.volatility = WithinBands

\* C21: in every signals dict generate_signals builds, the buy and sell votes
\* together number 1, 2 or 3; the confidence is never "0/3"; and the
\* recommendation is HOLD exactly when there is one buy vote and one sell
\* vote, and then the confidence is "1/3".
C21_MACDAlwaysVotes ==
    \A sig \in SignalsSeen :
        LET buy == StatedBuyVotes(sig)
            sell == StatedSellVotes(sig)
        IN  /\ buy + sell \in 1..VoteCount
            /\ sig.confidence # "0/3"
            /\ ~(buy = 0 /\ sell = 0)
            /\ sig.recommendation = HOLD <=> (buy = 1 /\ sell = 1)
            /\ sig.recommendation = HOLD => sig.confidence = "1/3"

\* generate_signals returned HOLD at "1/3": a Sideways trend abstains, an
\* Oversold RSI buys and a Bearish MACD sells.
C21_Witness ==
    /\ Returned("generate_signals")
    /\ ret.out.value.trend = Sideways
    /\ ret.out.value.momentum = Oversold
    /\ ret.out.value.macd = Bearish
    /\ ret.out.value.recommendation = HOLD
    /\ ret.out.value.confidence = "1/3"

\* Every indicator the vote reads is undefined at the latest bar of the table.
VoteInputsUndefined(df) ==
    /\ df.len >= 1
    /\ IsNaN(SMA(df, SMAShort))
    /\ IsNaN(RSI(df))
    /\ IsNaN(MACDLine(df))

\* C22: whenever generate_signals was called on a series too short for SMA_20,
\* RSI and MACD (10 bars, say), it returned a signals dict with trend Sideways,
\* RSI label Neutral, MACD label Bearish, recommendation SELL and confidence
\* "1/3".
C22_UndefinedInputsSell ==
    (ret.op = "generate_signals" /\ VoteInputsUndefined(data)) =>
        /\ ~ret.out.raised
        /\ ret.out.value.trend = Sideways
        /\ ret.out.value.momentum = Neutral
        /\ ret.out.value.macd = Bearish
        /\ ret.out.value.recommendation = SELL
        /\ ret.out.value.confidence = "1/3"

\* The operations that compute the indicators only if the table lacks them.
LazyOps == {"analyze_trend", "analyze_momentum", "analyze_volatility", "generate_signals"}

\* The outcome of a lazy operation as the first call on a new analyzer of the series.
OnFresh(op) ==
    CASE op = "analyze_trend" -> analyze_trend(NewAnalyzer(First, series))
      [] op = "analyze_momentum" -> analyze_momentum(NewAnalyzer(First, series))
      [] op = "analyze_volatility" -> analyze_volatility(NewAnalyzer(First, series))
      [] op = "generate_signals" -> generate_signals(NewAnalyzer(First, series))

\* How many times a call computed the indicator table.
Computations(log) == Cardinality({i \in 1..Len(log) : log[i] = "add_technical_indicators"})

\* C23: for every call on the analyzer at hand, whatever calls came before:
\* analyze_trend, analyze_momentum, analyze_volatility and generate_signals
\* give the outcome they give as the first call on a new analyzer of the
\* series; they compute the indicators once if the table lacks them and it can
\* be computed, and not at all otherwise; a call leaves the columns and the
\* latest row of a table that has the indicators as they were, and the length,
\* the bars and the close of any table; and the stored signals change only in
\* generate_signals and get_summary.
C23_LazyAndStable ==
    [][ret'.op # "analyze_single_stock" =>
         /\ ret'.op \in LazyOps =>
               /\ ret'.out = OnFresh(ret'.op).out
               /\ Computations(steps') =
                     (IF IndicatorCols \subseteq data.cols \/ ret'.out.raised THEN 0 ELSE 1)
         /\ IndicatorCols \subseteq data.cols =>
               data'.cols = data.cols /\ data'.last = data.last
         /\ data'.len = data.len
         /\ data'.bars = data.bars
         /\ data'.last["Close"] = data.last["Close"]
         /\ signals' # signals => ret'.op \in {"generate_signals", "get_summary"}]_vars

\* analyze_trend returned, without computing the indicators again, on an
\* analyzer that had stored its signals before: the dict it returns as the
\* first call on a new analyzer, with two averages defined.
C23_Witness ==
    /\ Returned("analyze_trend")
    /\ steps = <<"analyze_trend">>
    /\ signals # EmptyDict
    /\ IndicatorCols \subseteq data.cols
    /\ ret.out.value.short_term_trend = Downtrend
    /\ ret.out = analyze_trend(NewAnalyzer(First, series)).out

====
